---- MODULE Spec2Model ----
(***************************************************************************)
(* A model of the shakmaty move generator and position update:            *)
(* Standard::legal_moves / Standard::do_move / Standard::from_fen of      *)
(* src/src/position.rs, the coordinate conversions of src/src/uci.rs and  *)
(* src/src/variant.rs.  Bitboards are sets of squares 0..63.              *)
(* The square, bitboard, attacks and board modules are not part of the    *)
(* sources at hand; they are modelled from their contracts (spec.md 3,    *)
(* 4.1-4.3).                                                              *)
(***************************************************************************)
EXTENDS Integers, Sequences, FiniteSets, TLC

VARIABLES pos, prev, last, ply, start, book, res, game

vars == <<pos, prev, last, ply, start, book, res, game>>

(***************************************************************************)
(* Squares, colors, roles                                                  *)
(***************************************************************************)
Squares == 0..63

\* Option<Square>::None
NoSquare == 0 - 1

\* Option<Role>::None
NoRole == "none"

White == "white"

Black == "black"

Colors == {White, Black}

ROLES == <<"pawn", "knight", "bishop", "rook", "queen", "king">>

Roles == {ROLES[i] : i \in 1..6}

\* Color::fold
fold(color, w, b) == IF color = White THEN w ELSE b

\* !color
Other(color) == fold(color, Black, White)

from_coords(f, r) == f + 8 * r

file(sq) == sq % 8

rank(sq) == sq \div 8

Abs(x) == IF x < 0 THEN 0 - x ELSE x

Max(a, b) == IF a < b THEN b ELSE a

\* square::distance: chebyshev distance
distance(a, b) == Max(Abs(file(a) - file(b)), Abs(rank(a) - rank(b)))

\* square::delta
delta(a, b) == a - b

\* Square::offset: None when the index leaves the board
offset(sq, d) == IF sq + d \in Squares THEN sq + d ELSE NoSquare

A1 == from_coords(0, 0)
C1 == from_coords(2, 0)
D1 == from_coords(3, 0)
E1 == from_coords(4, 0)
F1 == from_coords(5, 0)
G1 == from_coords(6, 0)
H1 == from_coords(7, 0)
A8 == from_coords(0, 7)
C8 == from_coords(2, 7)
D8 == from_coords(3, 7)
E8 == from_coords(4, 7)
F8 == from_coords(5, 7)
G8 == from_coords(6, 7)
H8 == from_coords(7, 7)

(***************************************************************************)
(* Bitboard helpers                                                        *)
(***************************************************************************)
\* Bitboard::relative_rank(color, r): rank r counted from color's back rank
relative_rank(color, r) == {s \in Squares : rank(s) = fold(color, r, 7 - r)}

\* Bitboard::file
file_bb(f) == {s \in Squares : file(s) = f}

\* Bitboard::relative_shift(color, 8): one rank forward, squares shifted off
\* the board are dropped
relative_shift(bb, color) ==
    {s + fold(color, 8, 0 - 8) : s \in {t \in bb : t + fold(color, 8, 0 - 8) \in Squares}}

\* Bitboard::first / Bitboard::last
first(bb) == IF bb = {} THEN NoSquare ELSE CHOOSE s \in bb : \A t \in bb : s <= t

last_sq(bb) == IF bb = {} THEN NoSquare ELSE CHOOSE s \in bb : \A t \in bb : t <= s

more_than_one(bb) == Cardinality(bb) > 1

\* Bitboard::single_square
single_square(bb) == IF Cardinality(bb) = 1 THEN first(bb) ELSE NoSquare

\* Bitboard::flip
flip(bb, sq) == IF sq \in bb THEN bb \ {sq} ELSE bb \cup {sq}

(***************************************************************************)
(* Attack tables                                                           *)
(***************************************************************************)
SameLine(a, b) ==
    \/ file(a) = file(b)
    \/ rank(a) = rank(b)
    \/ Abs(file(a) - file(b)) = Abs(rank(a) - rank(b))

SameRookLine(a, b) == file(a) = file(b) \/ rank(a) = rank(b)

SameBishopLine(a, b) == Abs(file(a) - file(b)) = Abs(rank(a) - rank(b))

KingTable == [s \in Squares |-> {t \in Squares : distance(s, t) = 1}]

KnightTable ==
    [s \in Squares |->
        {t \in Squares : {Abs(file(s) - file(t)), Abs(rank(s) - rank(t))} = {1, 2}}]

PawnTable ==
    [c \in Colors |-> [s \in Squares |->
        {t \in Squares : /\ rank(t) = rank(s) + fold(c, 1, 0 - 1)
                         /\ Abs(file(t) - file(s)) = 1}]]

\* the full line through a and b, endpoints included
RayTable ==
    [a \in Squares |-> [b \in Squares |->
        IF a = b \/ ~SameLine(a, b) THEN {}
        ELSE {t \in Squares :
                \/ t = a \/ t = b
                \/ /\ file(a) = file(b) /\ file(t) = file(a)
                \/ /\ rank(a) = rank(b) /\ rank(t) = rank(a)
                \/ /\ file(a) # file(b) /\ rank(a) # rank(b)
                   /\ (file(t) - file(a)) * (rank(b) - rank(a))
                        = (rank(t) - rank(a)) * (file(b) - file(a))}]]

\* squares strictly between a and b on a common rank, file or diagonal
BetweenTable ==
    [a \in Squares |-> [b \in Squares |->
        {t \in RayTable[a][b] : /\ t # a /\ t # b
                                /\ distance(a, t) + distance(t, b) = distance(a, b)}]]

RookLines == [s \in Squares |-> {t \in Squares : t # s /\ SameRookLine(s, t)}]

BishopLines == [s \in Squares |-> {t \in Squares : t # s /\ SameBishopLine(s, t)}]

king_attacks(sq) == KingTable[sq]

knight_attacks(sq) == KnightTable[sq]

pawn_attacks(color, sq) == PawnTable[color][sq]

between(a, b) == BetweenTable[a][b]

ray(a, b) == RayTable[a][b]

aligned(a, b, c) == c \in RayTable[a][b]

\* squares reached from sq along ranks and files, stopping at (and
\* including) the first occupied square in each direction
rook_attacks(sq, occ) == {t \in RookLines[sq] : BetweenTable[sq][t] \cap occ = {}}

bishop_attacks(sq, occ) == {t \in BishopLines[sq] : BetweenTable[sq][t] \cap occ = {}}

(***************************************************************************)
(* Board: two color bitboards, six role bitboards, the promoted overlay    *)
(***************************************************************************)
EmptyRoles == [r \in Roles |-> {}]

Board_empty == [by_color |-> [c \in Colors |-> {}], by_role |-> EmptyRoles, promoted |-> {}]

occupied(b) == b.by_color[White] \cup b.by_color[Black]

by_color(b, color) == b.by_color[color]

by_role(b, role) == b.by_role[role]

by_piece(b, color, role) == b.by_color[color] \cap b.by_role[role]

kings(b) == b.by_role["king"]

rooks_and_queens(b) == b.by_role["rook"] \cup b.by_role["queen"]

bishops_and_queens(b) == b.by_role["bishop"] \cup b.by_role["queen"]

sliders(b) == b.by_role["rook"] \cup b.by_role["bishop"] \cup b.by_role["queen"]

role_at(b, sq) ==
    IF \E r \in Roles : sq \in b.by_role[r]
    THEN CHOOSE r \in Roles : sq \in b.by_role[r]
    ELSE NoRole

color_at(b, sq) ==
    IF sq \in b.by_color[White] THEN White
    ELSE IF sq \in b.by_color[Black] THEN Black ELSE "none"

NoPiece == [color |-> "none", role |-> NoRole]

piece_at(b, sq) == [color |-> color_at(b, sq), role |-> role_at(b, sq)]

Piece(color, role) == [color |-> color, role |-> role]

\* Board::remove_piece_at: the square is cleared in every bitboard
remove_piece_at(b, sq) ==
    [by_color |-> [c \in Colors |-> b.by_color[c] \ {sq}],
     by_role  |-> [r \in Roles |-> b.by_role[r] \ {sq}],
     promoted |-> b.promoted \ {sq}]

\* Board::set_piece_at: whatever stood on the square is replaced
set_piece_at(b, sq, piece) ==
    [by_color |-> [c \in Colors |->
                     IF c = piece.color THEN b.by_color[c] \cup {sq} ELSE b.by_color[c] \ {sq}],
     by_role  |-> [r \in Roles |->
                     IF r = piece.role THEN b.by_role[r] \cup {sq} ELSE b.by_role[r] \ {sq}],
     promoted |-> b.promoted \ {sq}]

\* Board::king_of
king_of(b, color) == first(by_piece(b, color, "king"))

\* Board::attacks_to: attackers of both colors, against the board's occupancy
attacks_to(b, sq) ==
    LET occ == occupied(b) IN
    (pawn_attacks(White, sq) \cap by_piece(b, Black, "pawn"))
    \cup (pawn_attacks(Black, sq) \cap by_piece(b, White, "pawn"))
    \cup (knight_attacks(sq) \cap b.by_role["knight"])
    \cup (king_attacks(sq) \cap b.by_role["king"])
    \cup (rook_attacks(sq, occ) \cap rooks_and_queens(b))
    \cup (bishop_attacks(sq, occ) \cap bishops_and_queens(b))

\* Board::default: the initial placement
BackRank == <<"rook", "knight", "bishop", "queen", "king", "bishop", "knight", "rook">>

Board_default ==
    [by_color |-> [c \in Colors |-> relative_rank(c, 0) \cup relative_rank(c, 1)],
     by_role  |-> [r \in Roles |->
                     IF r = "pawn" THEN relative_rank(White, 1) \cup relative_rank(Black, 1)
                     ELSE {s \in relative_rank(White, 0) \cup relative_rank(Black, 0) :
                             BackRank[file(s) + 1] = r}],
     promoted |-> {}]

(***************************************************************************)
(* Moves                                                                   *)
(***************************************************************************)
Normal(role, from, capture, to, promotion) ==
    [tag |-> "Normal", role |-> role, from |-> from, capture |-> capture,
     to |-> to, promotion |-> promotion]

EnPassant(from, to, pawn) == [tag |-> "EnPassant", from |-> from, to |-> to, pawn |-> pawn]

Castle(king, rook) == [tag |-> "Castle", king |-> king, rook |-> rook]

Put(to, role) == [tag |-> "Put", to |-> to, role |-> role]

Null == [tag |-> "Null"]

(***************************************************************************)
(* Standard (src/src/position.rs)                                          *)
(***************************************************************************)
\* impl Default for Standard
Standard_default ==
    [board |-> Board_default, turn |-> White,
     castling_rights |-> {A1, H1, A8, H8},
     ep_square |-> NoSquare, halfmove_clock |-> 0, fullmoves |-> 1]

\* Standard::empty
Standard_empty ==
    [board |-> Board_empty, turn |-> White, castling_rights |-> {},
     ep_square |-> NoSquare, halfmove_clock |-> 0, fullmoves |-> 1]

us(p) == by_color(p.board, p.turn)

our(p, role) == us(p) \cap by_role(p.board, role)

them(p) == by_color(p.board, Other(p.turn))

\* Position::checkers
checkers(p) ==
    LET king == king_of(p.board, p.turn) IN
    IF king = NoSquare THEN {}
    ELSE by_color(p.board, Other(p.turn)) \cap attacks_to(p.board, king)

\* Standard::push_pawn_moves
push_pawn_moves(p, from, to) ==
    LET capture == role_at(p.board, to) IN
    IF rank(to) = fold(p.turn, 7, 0)
    THEN {Normal("pawn", from, capture, to, pr) : pr \in {"queen", "rook", "bishop", "knight"}}
    ELSE {Normal("pawn", from, capture, to, NoRole)}

\* Standard::push_moves
push_moves(p, role, from, to) ==
    {Normal(role, from, role_at(p.board, sq), sq, NoRole) : sq \in to}

\* Standard::gen_pseudo_legal
gen_pseudo_legal(p, selection, target) ==
    LET occ == occupied(p.board)
        free == (Squares \ us(p)) \cap target
        single_moves == relative_shift(our(p, "pawn") \cap selection, p.turn) \ occ
        double_moves == (relative_shift(single_moves, p.turn) \cap relative_rank(p.turn, 3)) \ occ
    IN
    UNION {push_moves(p, "king", from, king_attacks(from) \cap free) :
             from \in our(p, "king") \cap selection}
    \cup UNION {push_moves(p, "knight", from, knight_attacks(from) \cap free) :
             from \in our(p, "knight") \cap selection}
    \cup UNION {push_moves(p, "rook", from, rook_attacks(from, occ) \cap free) :
             from \in our(p, "rook") \cap selection}
    \cup UNION {push_moves(p, "queen", from, rook_attacks(from, occ) \cap free) :
             from \in our(p, "queen") \cap selection}
    \cup UNION {push_moves(p, "bishop", from, bishop_attacks(from, occ) \cap free) :
             from \in our(p, "bishop") \cap selection}
    \cup UNION {push_moves(p, "queen", from, bishop_attacks(from, occ) \cap free) :
             from \in our(p, "queen") \cap selection}
    \cup UNION {UNION {push_pawn_moves(p, from, to) :
                         to \in pawn_attacks(p.turn, from) \cap them(p) \cap target} :
             from \in our(p, "pawn")}
    \cup UNION {push_pawn_moves(p, offset(to, fold(p.turn, 0 - 8, 8)), to) :
             to \in {t \in single_moves \cap target : offset(t, fold(p.turn, 0 - 8, 8)) # NoSquare}}
    \cup UNION {push_pawn_moves(p, offset(to, fold(p.turn, 0 - 16, 16)), to) :
             to \in {t \in double_moves \cap target : offset(t, fold(p.turn, 0 - 16, 16)) # NoSquare}}

\* Standard::gen_en_passant
gen_en_passant(p) ==
    IF p.ep_square = NoSquare THEN {}
    ELSE {EnPassant(from, p.ep_square, offset(p.ep_square, fold(p.turn, 0 - 8, 8))) :
            from \in our(p, "pawn") \cap pawn_attacks(Other(p.turn), p.ep_square)}

\* Standard::slider_blockers
slider_blockers(p, sliding, sq) ==
    LET snipers == (rook_attacks(sq, {}) \cap rooks_and_queens(p.board))
                   \cup (bishop_attacks(sq, {}) \cap bishops_and_queens(p.board))
    IN UNION {between(sq, sniper) \cap occupied(p.board) :
                sniper \in {s \in snipers \cap sliding :
                              ~more_than_one(between(sq, s) \cap occupied(p.board))}}

\* Standard::is_safe
is_safe(p, m, blockers) ==
    CASE m.tag = "Normal" ->
           IF m.role = "king"
           THEN attacks_to(p.board, m.to) \cap them(p) = {}
           ELSE \/ m.from \notin (us(p) \cap blockers)
                \/ aligned(m.from, m.to, first(our(p, "king")))
      [] m.tag = "EnPassant" ->
           LET occ == (flip(flip(occupied(p.board), m.from), m.pawn)) \cup {m.to}
               king == first(our(p, "king"))
           IN IF king = NoSquare THEN TRUE
              ELSE /\ rook_attacks(king, occ) \cap them(p) \cap rooks_and_queens(p.board) = {}
                   /\ bishop_attacks(king, occ) \cap them(p) \cap bishops_and_queens(p.board) = {}
      [] m.tag = "Castle" -> TRUE
      [] OTHER -> FALSE

\* Standard::evasions
\* Standard::evasions taking the first checker for the only one
evasions_first_checker(p) ==
    LET chk == checkers(p)
        king == first(our(p, "king"))
        attacked == UNION {ray(checker, king) \ {checker} : checker \in chk \cap sliders(p.board)}
        checker == first(chk)
    IN
    {Normal("king", king, role_at(p.board, to), to, NoRole) :
        to \in (king_attacks(king) \ us(p)) \ attacked}
    \cup (IF checker # NoSquare
          THEN gen_pseudo_legal(p, Squares \ kings(p.board), between(king, checker) \cup {checker})
               \cup gen_en_passant(p)
          ELSE {})

evasions(p) ==
    LET chk == checkers(p)
        king == first(our(p, "king"))
        attacked == UNION {ray(checker, king) \ {checker} : checker \in chk \cap sliders(p.board)}
        checker == single_square(chk)
    IN
    {Normal("king", king, role_at(p.board, to), to, NoRole) :
        to \in (king_attacks(king) \ us(p)) \ attacked}
    \cup (IF checker # NoSquare
          THEN gen_pseudo_legal(p, Squares \ kings(p.board), between(king, checker) \cup {checker})
               \cup gen_en_passant(p)
          ELSE {})

\* Standard::gen_castling_moves
CastleTargets(p, king, rook) ==
    IF king < rook
    THEN [king_to |-> fold(p.turn, G1, G8), rook_to |-> fold(p.turn, H1, H8)]
    ELSE [king_to |-> fold(p.turn, C1, C8), rook_to |-> fold(p.turn, D1, D8)]

\* gen_castling_moves looking at the occupancy of the two paths only
CastleAllowed_unattacked(p, king, rook) ==
    LET t == CastleTargets(p, king, rook)
        empty_for_king == (between(king, t.king_to) \cup {t.king_to}) \ {rook, king}
        empty_for_rook == (between(rook, t.rook_to) \cup {t.rook_to}) \ {rook, king}
    IN /\ occupied(p.board) \cap empty_for_king = {}
       /\ occupied(p.board) \cap empty_for_rook = {}

CastleAllowed(p, king, rook) ==
    LET t == CastleTargets(p, king, rook)
        empty_for_king == (between(king, t.king_to) \cup {t.king_to}) \ {rook, king}
        empty_for_rook == (between(rook, t.rook_to) \cup {t.rook_to}) \ {rook, king}
    IN /\ occupied(p.board) \cap empty_for_king = {}
       /\ occupied(p.board) \cap empty_for_rook = {}
       /\ \A sq \in between(king, t.king_to) \cup {king, t.king_to} :
             attacks_to(p.board, sq) \cap them(p) = {}
       /\ rook_attacks(t.king_to, occupied(p.board) \ {rook})
            \cap them(p) \cap rooks_and_queens(p.board) = {}

gen_castling_moves(p) ==
    LET backrank == relative_rank(p.turn, 0) IN
    {Castle(c[1], c[2]) :
        c \in {kr \in (our(p, "king") \cap backrank) \X (p.castling_rights \cap backrank) :
                 CastleAllowed(p, kr[1], kr[2])}}

\* Standard::legal_moves. The unwrap of king_of panics on a board without
\* a king of the side to move: no move list is produced then.
legal_moves(p) ==
    IF king_of(p.board, p.turn) = NoSquare THEN {}
    ELSE LET moves == IF checkers(p) = {}
                      THEN gen_pseudo_legal(p, Squares, Squares)
                           \cup gen_en_passant(p) \cup gen_castling_moves(p)
                      ELSE evasions(p)
             blockers == slider_blockers(p, them(p), king_of(p.board, p.turn))
         IN {m \in moves : is_safe(p, m, blockers)}

\* the promoted overlay after a Normal move: promoted().remove(from),
\* then promoted().flip(to) when the mover was promoted or promotes
move_promoted(b, from, to, promotes) ==
    LET promoted == from \in b.promoted \/ promotes
        cleared  == [b EXCEPT !.promoted = @ \ {from}]
    IN [was |-> promoted, board |-> cleared]

\* Standard::do_move, Move::Normal: the board update
do_move_normal_board(b, color, m) ==
    LET pr == move_promoted(b, m.from, m.to, m.promotion # NoRole)
        placed == set_piece_at(pr.board, m.to,
                               Piece(color, IF m.promotion # NoRole THEN m.promotion ELSE m.role))
    IN IF pr.was THEN [placed EXCEPT !.promoted = flip(@, m.to)] ELSE placed

\* do_move_castle_board with the two wings exchanged
do_move_castle_board_swapped(b, color, m) ==
    LET rook_to == from_coords(IF delta(m.rook, m.king) < 0 THEN 5 ELSE 3, fold(color, 0, 7))
        king_to == from_coords(IF delta(m.rook, m.king) < 0 THEN 6 ELSE 2, fold(color, 0, 7))
        b1 == remove_piece_at(b, m.king)
        b2 == remove_piece_at(b1, m.rook)
        b3 == set_piece_at(b2, rook_to, Piece(color, "rook"))
    IN set_piece_at(b3, king_to, Piece(color, "king"))

\* Standard::do_move, Move::Castle: the board update
do_move_castle_board(b, color, m) ==
    LET rook_to == from_coords(IF delta(m.rook, m.king) < 0 THEN 3 ELSE 5, fold(color, 0, 7))
        king_to == from_coords(IF delta(m.rook, m.king) < 0 THEN 2 ELSE 6, fold(color, 0, 7))
        b1 == remove_piece_at(b, m.king)
        b2 == remove_piece_at(b1, m.rook)
        b3 == set_piece_at(b2, rook_to, Piece(color, "rook"))
    IN set_piece_at(b3, king_to, Piece(color, "king"))

\* Standard::do_move, Move::EnPassant: the board update
do_move_en_passant_board(b, m) ==
    LET b1 == remove_piece_at(b, m.pawn)
        piece == piece_at(b1, m.from)
        b2 == remove_piece_at(b1, m.from)
    IN IF piece.role = NoRole THEN b2 ELSE set_piece_at(b2, m.to, piece)

\* Standard::do_move: ep_square().take() empties a copy of the field, so
\* the field keeps its value unless a double pawn push overwrites it
do_move_ep_square(p, m) ==
    IF m.tag = "Normal" /\ m.role = "pawn" /\ distance(m.from, m.to) = 2
    THEN offset(m.from, fold(p.turn, 8, 0 - 8))
    ELSE p.ep_square

\* do_move_halfmove_clock without the reset on a capture
do_move_halfmove_clock_pawn_only(p, m) ==
    IF \/ m.tag = "Normal" /\ m.role = "pawn"
       \/ m.tag = "EnPassant"
    THEN 0
    ELSE p.halfmove_clock + 1

\* Standard::do_move: the halfmove clock
do_move_halfmove_clock(p, m) ==
    IF \/ m.tag = "Normal" /\ (m.role = "pawn" \/ m.capture # NoRole)
       \/ m.tag = "EnPassant"
    THEN 0
    ELSE p.halfmove_clock + 1

do_move_castling_rights(p, m) ==
    CASE m.tag = "Normal" ->
           IF m.role = "king"
           THEN p.castling_rights \ relative_rank(p.turn, 0)
           ELSE p.castling_rights \ {m.from, m.to}
      [] m.tag = "Castle" -> p.castling_rights \ relative_rank(p.turn, 0)
      [] OTHER -> p.castling_rights

do_move_board(p, m) ==
    CASE m.tag = "Normal" -> do_move_normal_board(p.board, p.turn, m)
      [] m.tag = "Castle" -> do_move_castle_board(p.board, p.turn, m)
      [] m.tag = "EnPassant" -> do_move_en_passant_board(p.board, m)
      [] m.tag = "Put" -> set_piece_at(p.board, m.to, Piece(p.turn, m.role))
      [] OTHER -> p.board

\* do_move_fullmoves counting every move
do_move_fullmoves_every(p) == p.fullmoves + 1

\* Standard::do_move: the fullmove counter
do_move_fullmoves(p) == IF Other(p.turn) = White THEN p.fullmoves + 1 ELSE p.fullmoves

\* Standard::do_move
do_move(p, m) ==
    [board |-> do_move_board(p, m),
     turn |-> Other(p.turn),
     castling_rights |-> do_move_castling_rights(p, m),
     ep_square |-> do_move_ep_square(p, m),
     halfmove_clock |-> do_move_halfmove_clock(p, m),
     fullmoves |-> do_move_fullmoves(p)]

\* perft: the number of leaves of the legal-move tree of the given depth
RECURSIVE SumOver(_, _, _)
SumOver(p, ms, d) ==
    IF ms = {} THEN 0
    ELSE LET m == CHOOSE x \in ms : TRUE
         IN (IF d = 1 THEN 1 ELSE SumOver(do_move(p, m), legal_moves(do_move(p, m)), d - 1))
            + SumOver(p, ms \ {m}, d)

perft(p, d) == IF d = 0 THEN 1 ELSE SumOver(p, legal_moves(p), d)

(***************************************************************************)
(* Position text.  A text is a sequence of one-character strings.          *)
(***************************************************************************)
LowerCase == <<"a", "b", "c", "d", "e", "f", "g", "h", "i", "j", "k", "l", "m",
               "n", "o", "p", "q", "r", "s", "t", "u", "v", "w", "x", "y", "z">>

UpperCase == <<"A", "B", "C", "D", "E", "F", "G", "H", "I", "J", "K", "L", "M",
               "N", "O", "P", "Q", "R", "S", "T", "U", "V", "W", "X", "Y", "Z">>

Digits == <<"0", "1", "2", "3", "4", "5", "6", "7", "8", "9">>

IndexIn(seq, ch) == IF \E i \in DOMAIN seq : seq[i] = ch
                    THEN CHOOSE i \in DOMAIN seq : seq[i] = ch
                    ELSE 0

to_ascii_uppercase(ch) == IF IndexIn(LowerCase, ch) # 0 THEN UpperCase[IndexIn(LowerCase, ch)] ELSE ch

to_ascii_lowercase(ch) == IF IndexIn(UpperCase, ch) # 0 THEN LowerCase[IndexIn(UpperCase, ch)] ELSE ch

\* Role::from_char / Role::char
RoleChars == [p |-> "pawn", n |-> "knight", b |-> "bishop", r |-> "rook", q |-> "queen", k |-> "king"]

role_from_char(ch) == IF ch \in DOMAIN RoleChars THEN RoleChars[ch] ELSE NoRole

role_char(role) == CHOOSE ch \in DOMAIN RoleChars : RoleChars[ch] = role

\* str::split(' ')
RECURSIVE split(_, _)
split(text, sep) ==
    IF \A i \in DOMAIN text : text[i] # sep THEN <<text>>
    ELSE LET i == CHOOSE j \in DOMAIN text : text[j] = sep /\ \A k \in 1..(j - 1) : text[k] # sep
         IN <<SubSeq(text, 1, i - 1)>> \o split(SubSeq(text, i + 1, Len(text)), sep)

\* str::parse::<u32>: decimal digits only (an optional leading + is accepted),
\* -1 stands for Err
RECURSIVE parse_digits(_, _)
parse_digits(text, acc) ==
    IF text = <<>> THEN acc
    ELSE IF IndexIn(Digits, Head(text)) = 0 THEN 0 - 1
    ELSE parse_digits(Tail(text), 10 * acc + IndexIn(Digits, Head(text)) - 1)

parse_u32(text) ==
    LET body == IF text # <<>> /\ Head(text) = "+" THEN Tail(text) ELSE text
    IN IF body = <<>> THEN 0 - 1 ELSE parse_digits(body, 0)

\* Square::from_str: a file letter a-h and a rank digit 1-8
square_from_str(text) ==
    IF /\ Len(text) = 2
       /\ IndexIn(LowerCase, text[1]) \in 1..8
       /\ IndexIn(Digits, text[2]) \in 2..9
    THEN from_coords(IndexIn(LowerCase, text[1]) - 1, IndexIn(Digits, text[2]) - 2)
    ELSE NoSquare

\* Board::from_board_fen: ranks 8 down to 1 separated by /, digits run empty
\* squares, a letter is a piece (uppercase White), ~ marks the piece before
\* it as promoted
RECURSIVE rank_fen_step(_, _, _, _)
rank_fen_step(text, r, f, b) ==
    IF text = <<>> THEN [ok |-> f = 8, board |-> b]
    ELSE LET ch == Head(text) IN
         CASE IndexIn(Digits, ch) \in 2..9 ->
                IF f + IndexIn(Digits, ch) - 1 <= 8
                THEN rank_fen_step(Tail(text), r, f + IndexIn(Digits, ch) - 1, b)
                ELSE [ok |-> FALSE, board |-> b]
           [] ch = "~" ->
                IF f > 0 /\ from_coords(f - 1, r) \in occupied(b)
                THEN rank_fen_step(Tail(text), r, f,
                                   [b EXCEPT !.promoted = @ \cup {from_coords(f - 1, r)}])
                ELSE [ok |-> FALSE, board |-> b]
           [] role_from_char(to_ascii_lowercase(ch)) # NoRole ->
                IF f < 8
                THEN rank_fen_step(Tail(text), r, f + 1,
                        set_piece_at(b, from_coords(f, r),
                                     Piece(IF to_ascii_uppercase(ch) = ch THEN White ELSE Black,
                                           role_from_char(to_ascii_lowercase(ch)))))
                ELSE [ok |-> FALSE, board |-> b]
           [] OTHER -> [ok |-> FALSE, board |-> b]

RECURSIVE board_fen_ranks(_, _, _)
board_fen_ranks(ranks, i, b) ==
    IF i > 8 THEN [ok |-> TRUE, board |-> b]
    ELSE LET done == rank_fen_step(ranks[i], 8 - i, 0, b) IN
         IF done.ok THEN board_fen_ranks(ranks, i + 1, done.board) ELSE done

from_board_fen(text) ==
    LET ranks == split(text, "/") IN
    IF Len(ranks) = 8 THEN board_fen_ranks(ranks, 1, Board_empty)
    ELSE [ok |-> FALSE, board |-> Board_empty]

\* Standard::from_fen, the castling field: one rook square per character
castling_flag(b, ch) ==
    LET color == IF to_ascii_uppercase(ch) = ch THEN White ELSE Black
        candidates == relative_rank(color, 0) \cap by_piece(b, color, "rook")
        lower == to_ascii_lowercase(ch)
    IN CASE lower = "k" -> last_sq(candidates)
         [] lower = "q" -> first(candidates)
         [] OTHER -> first(candidates \cap file_bb(IndexIn(LowerCase, lower) - 1))

RECURSIVE castling_part(_, _, _)
castling_part(b, text, rights) ==
    IF text = <<>> THEN [ok |-> TRUE, rights |-> rights]
    ELSE IF Head(text) = "-" THEN castling_part(b, Tail(text), rights)
    ELSE IF castling_flag(b, Head(text)) = NoSquare THEN [ok |-> FALSE, rights |-> rights]
    ELSE castling_part(b, Tail(text), rights \cup {castling_flag(b, Head(text))})

\* Standard::from_fen: Option<Standard>, ok = FALSE stands for None.
\* Missing trailing fields keep the values of Standard::empty.
from_fen(fen) ==
    LET parts == split(fen, " ")
        n == Len(parts)
        brd == from_board_fen(parts[1])
        turn_ok == n < 2 \/ parts[2] \in {<<"w">>, <<"b">>}
        turn == IF n >= 2 /\ parts[2] = <<"b">> THEN Black ELSE White
        cr == IF n >= 3 THEN castling_part(brd.board, parts[3], {}) ELSE [ok |-> TRUE, rights |-> {}]
        ep_ok == n < 4 \/ parts[4] = <<"-">> \/ square_from_str(parts[4]) # NoSquare
        ep == IF n >= 4 /\ parts[4] # <<"-">> THEN square_from_str(parts[4]) ELSE NoSquare
        half == IF n >= 5 THEN parse_u32(parts[5]) ELSE 0
        full == IF n >= 6 THEN parse_u32(parts[6]) ELSE 1
    IN IF brd.ok /\ turn_ok /\ cr.ok /\ ep_ok /\ half >= 0 /\ full >= 0
       THEN [ok |-> TRUE,
             pos |-> [board |-> brd.board, turn |-> turn, castling_rights |-> cr.rights,
                      ep_square |-> ep, halfmove_clock |-> half,
                      fullmoves |-> IF n >= 6 THEN Max(1, full) ELSE 1]]
       ELSE [ok |-> FALSE, pos |-> Standard_empty]

(***************************************************************************)
(* Position::fen and Position::castling_xfen (src/src/position.rs)         *)
(***************************************************************************)
\* Piece::char: the role letter, uppercase for White
piece_char(piece) ==
    IF piece.color = White THEN to_ascii_uppercase(role_char(piece.role)) ELSE role_char(piece.role)

\* u32 Display: decimal digits without leading zeros
RECURSIVE u32_to_string(_)
u32_to_string(n) ==
    IF n < 10 THEN <<Digits[n + 1]>>
    ELSE u32_to_string(n \div 10) \o <<Digits[(n % 10) + 1]>>

\* Square Display: file letter and rank digit
square_to_string(sq) == <<LowerCase[file(sq) + 1], Digits[rank(sq) + 2]>>

\* Board::board_fen, one rank from file f on, `empty` empty squares pending
RECURSIVE rank_board_fen(_, _, _, _, _)
rank_board_fen(b, promoted, r, f, empty) ==
    LET run == IF empty > 0 THEN <<Digits[empty + 1]>> ELSE <<>> IN
    IF f = 8 THEN run
    ELSE IF from_coords(f, r) \notin occupied(b)
    THEN rank_board_fen(b, promoted, r, f + 1, empty + 1)
    ELSE run \o <<piece_char(piece_at(b, from_coords(f, r)))>>
             \o (IF promoted /\ from_coords(f, r) \in b.promoted THEN <<"~">> ELSE <<>>)
             \o rank_board_fen(b, promoted, r, f + 1, 0)

\* Board::board_fen: ranks 8 down to 1 separated by /
RECURSIVE board_fen_from(_, _, _)
board_fen_from(b, promoted, r) ==
    rank_board_fen(b, promoted, r, 0, 0)
      \o (IF r = 0 THEN <<>> ELSE <<"/">> \o board_fen_from(b, promoted, r - 1))

board_fen(b, promoted) == board_fen_from(b, promoted, 7)

\* Bitboard::rev: the squares from the highest down
RECURSIVE rev(_)
rev(bb) == IF bb = {} THEN <<>> ELSE <<last_sq(bb)>> \o rev(bb \ {last_sq(bb)})

\* Position::castling_xfen, the letter of one rook
castling_xfen_char(b, color, rook) ==
    LET king == king_of(b, color)
        candidates == by_piece(b, color, "rook") \cap relative_rank(color, 0)
    IN IF rook = first(candidates) /\ king # NoSquare /\ rook < king
       THEN fold(color, "Q", "q")
       ELSE IF rook = last_sq(candidates) /\ king # NoSquare /\ king < rook
       THEN fold(color, "K", "k")
       ELSE fold(color, UpperCase[file(rook) + 1], LowerCase[file(rook) + 1])

\* castling_xfen_char over the rooks from the lowest square up
castling_xfen_color_ascending(p, color) ==
    LET candidates == by_piece(p.board, color, "rook") \cap relative_rank(color, 0)
        rooks == rev(candidates \cap p.castling_rights)
    IN [i \in 1..Len(rooks) |-> castling_xfen_char(p.board, color, rooks[Len(rooks) + 1 - i])]

\* Position::castling_xfen, the letters of one color
castling_xfen_color(p, color) ==
    LET candidates == by_piece(p.board, color, "rook") \cap relative_rank(color, 0)
        rooks == rev(candidates \cap p.castling_rights)
    IN [i \in 1..Len(rooks) |-> castling_xfen_char(p.board, color, rooks[i])]

\* Position::castling_xfen
castling_xfen(p) ==
    LET fen == castling_xfen_color(p, White) \o castling_xfen_color(p, Black)
    IN IF fen = <<>> THEN <<"-">> ELSE fen

\* Position::fen of a Standard position: no pockets, no remaining checks
fen(p) ==
    board_fen(p.board, FALSE)
      \o <<" ", fold(p.turn, "w", "b"), " ">>
      \o castling_xfen(p)
      \o <<" ">>
      \o (IF p.ep_square = NoSquare THEN <<"-">> ELSE square_to_string(p.ep_square))
      \o <<" ">> \o u32_to_string(p.halfmove_clock)
      \o <<" ">> \o u32_to_string(p.fullmoves)

(***************************************************************************)
(* Position::san (src/src/position.rs)                                     *)
(***************************************************************************)
\* Position::san_candidates
san_candidates(p, role, target) ==
    {m \in legal_moves(p) :
        /\ m.tag = "Normal"
        /\ m.to = target
        /\ m.from \in by_piece(p.board, p.turn, role)}

\* Position::san, the fold over the candidates: (rank, file)
san_disambiguation(p, m) ==
    LET others == {c.from : c \in san_candidates(p, m.role, m.to)} \ {m.from}
    IN [rank |-> \E c \in others : rank(c) # rank(m.from) /\ file(c) = file(m.from),
        file |-> \E c \in others : rank(c) = rank(m.from) \/ file(c) # file(m.from)]

\* san::suffix with the two marks exchanged
san_suffix_exchanged(p, m) ==
    LET after == do_move(p, m) IN
    IF checkers(after) = {} THEN <<>>
    ELSE IF legal_moves(after) = {} THEN <<"+">> ELSE <<"#">>

\* Position::san::suffix
san_suffix(p, m) ==
    LET after == do_move(p, m) IN
    IF checkers(after) = {} THEN <<>>
    ELSE IF legal_moves(after) = {} THEN <<"#">> ELSE <<"+">>

\* Move Display of a castling move
castle_to_string(m) == IF m.king < m.rook THEN <<"O", "-", "O">> ELSE <<"O", "-", "O", "-", "O">>

\* Position::san
san(p, m) ==
    CASE m.tag = "Normal" ->
           (IF m.role # "pawn"
            THEN <<to_ascii_uppercase(role_char(m.role))>>
                 \o (IF san_disambiguation(p, m).file THEN <<LowerCase[file(m.from) + 1]>> ELSE <<>>)
                 \o (IF san_disambiguation(p, m).rank THEN <<Digits[rank(m.from) + 2]>> ELSE <<>>)
            ELSE <<>>)
           \o (IF m.capture # NoRole
               THEN (IF m.role = "pawn" THEN <<LowerCase[file(m.from) + 1]>> ELSE <<>>) \o <<"x">>
               ELSE <<>>)
           \o square_to_string(m.to)
           \o (IF m.promotion # NoRole
               THEN <<"=", to_ascii_uppercase(role_char(m.promotion))>> ELSE <<>>)
           \o san_suffix(p, m)
      [] m.tag = "EnPassant" ->
           <<LowerCase[file(m.from) + 1], "x">> \o square_to_string(m.to) \o san_suffix(p, m)
      [] m.tag = "Castle" -> castle_to_string(m) \o san_suffix(p, m)
      [] m.tag = "Put" ->
           <<to_ascii_uppercase(role_char(m.role)), "@">> \o square_to_string(m.to)
             \o san_suffix(p, m)
      [] OTHER -> <<"-", "-">>

(***************************************************************************)
(* Coordinate notation (src/src/uci.rs) and validation                     *)
(***************************************************************************)
UciNormal(from, to, promotion) == [tag |-> "Normal", from |-> from, to |-> to, promotion |-> promotion]

UciPut(role, to) == [tag |-> "Put", role |-> role, to |-> to]

UciNull == [tag |-> "Null"]

\* ParseUciError
ParseErr == [tag |-> "ParseUciError"]

\* Uci::from_ascii
from_ascii(uci) ==
    IF Len(uci) # 4 /\ Len(uci) # 5 THEN ParseErr
    ELSE IF uci = <<"0", "0", "0", "0">> THEN UciNull
    ELSE LET to == square_from_str(SubSeq(uci, 3, 4)) IN
         IF to = NoSquare THEN ParseErr
         ELSE IF uci[2] = "@"
         THEN IF role_from_char(to_ascii_lowercase(uci[1])) = NoRole THEN ParseErr
              ELSE UciPut(role_from_char(to_ascii_lowercase(uci[1])), to)
         ELSE LET from == square_from_str(SubSeq(uci, 1, 2)) IN
              IF from = NoSquare THEN ParseErr
              ELSE IF Len(uci) = 5
              THEN IF role_from_char(to_ascii_lowercase(uci[5])) = NoRole THEN ParseErr
                   ELSE UciNormal(from, to, role_from_char(to_ascii_lowercase(uci[5])))
              ELSE UciNormal(from, to, NoRole)

\* Uci::from_chess960
from_chess960(m) ==
    CASE m.tag = "Normal" -> UciNormal(m.from, m.to, m.promotion)
      [] m.tag = "EnPassant" -> UciNormal(m.from, m.to, NoRole)
      [] m.tag = "Castle" -> UciNormal(m.king, m.rook, NoRole)
      [] m.tag = "Put" -> UciPut(m.role, m.to)

\* Position::is_legal: the candidate is one of the legal moves; an
\* en-passant candidate names no captured square and is matched on from, to
same_move(l, c) ==
    IF c.tag = "EnPassant"
    THEN l.tag = "EnPassant" /\ l.from = c.from /\ l.to = c.to
    ELSE l = c

is_legal(p, candidate) == \E l \in legal_moves(p) : same_move(l, candidate)

\* the move of the position that a legal candidate stands for
legal_match(p, candidate) == CHOOSE l \in legal_moves(p) : same_move(l, candidate)

\* Uci::to_move, the candidate; IllegalUciError is tag "Illegal"
Illegal == [tag |-> "Illegal"]

to_move_candidate(uci, p) ==
    CASE uci.tag = "Normal" ->
           LET role == role_at(p.board, uci.from) IN
           IF role = NoRole THEN Illegal
           ELSE IF uci.promotion # NoRole /\ role # "pawn" THEN Illegal
           ELSE IF role = "king" /\ uci.to \in p.castling_rights
           THEN Castle(uci.from, uci.to)
           ELSE IF /\ role = "king"
                   /\ uci.from = fold(p.turn, E1, E8)
                   /\ rank(uci.to) = fold(p.turn, 0, 7)
                   /\ distance(uci.from, uci.to) = 2
           THEN IF file(uci.from) < file(uci.to)
                THEN Castle(uci.from, fold(p.turn, H1, H8))
                ELSE Castle(uci.from, fold(p.turn, A1, A8))
           ELSE IF /\ role = "pawn"
                   /\ file(uci.from) # file(uci.to)
                   /\ uci.to \notin occupied(p.board)
           THEN [tag |-> "EnPassant", from |-> uci.from, to |-> uci.to]
           ELSE Normal(role, uci.from, role_at(p.board, uci.to), uci.to, uci.promotion)
      [] uci.tag = "Put" -> Put(uci.to, uci.role)
      [] OTHER -> Illegal

\* to_move without the final is_legal test
to_move_unchecked(uci, p) ==
    LET candidate == to_move_candidate(uci, p) IN
    IF candidate.tag # "Illegal"
    THEN [ok |-> TRUE, m |-> candidate]
    ELSE [ok |-> FALSE, m |-> Illegal]

\* Uci::to_move: Ok(candidate) or Err(IllegalUciError)
to_move(uci, p) ==
    LET candidate == to_move_candidate(uci, p) IN
    IF candidate.tag # "Illegal" /\ is_legal(p, candidate)
    THEN [ok |-> TRUE, m |-> candidate]
    ELSE [ok |-> FALSE, m |-> Illegal]

\* Position::validate (src/src/position.rs): Option<Move>
validate(p, uci) ==
    CASE uci.tag = "Normal" ->
           IF role_at(p.board, uci.from) = NoRole THEN [ok |-> FALSE, m |-> Null]
           ELSE [ok |-> TRUE,
                 m |-> Normal(role_at(p.board, uci.from), uci.from,
                              role_at(p.board, uci.to), uci.to, uci.promotion)]
      [] uci.tag = "Put" -> [ok |-> TRUE, m |-> Put(uci.to, uci.role)]
      [] OTHER -> [ok |-> TRUE, m |-> Null]

\* Variant::validate (src/src/variant.rs): a king stepping onto a rook of
\* its own color is a Castle
variant_validate(p, uci) ==
    CASE uci.tag = "Normal" ->
           IF role_at(p.board, uci.from) = NoRole THEN [ok |-> FALSE, m |-> Null]
           ELSE IF /\ role_at(p.board, uci.from) = "king"
                   /\ uci.to \in by_piece(p.board, p.turn, "rook")
           THEN [ok |-> TRUE, m |-> Castle(uci.from, uci.to)]
           ELSE [ok |-> TRUE,
                 m |-> Normal(role_at(p.board, uci.from), uci.from,
                              role_at(p.board, uci.to), uci.to, uci.promotion)]
      [] uci.tag = "Put" -> [ok |-> TRUE, m |-> Put(uci.to, uci.role)]
      [] OTHER -> [ok |-> TRUE, m |-> Null]

(***************************************************************************)
(* Variants (src/src/variant.rs).  A variant wraps a fen::Situation; the   *)
(* free functions gen_pseudo_legal, gen_en_passant and slider_blockers of  *)
(* variant.rs read as the methods of the same names of Standard.           *)
(***************************************************************************)
\* fen::Situation::from_fen
Situation_from_fen(text) == from_fen(text)

\* fen::Situation::do_move, Move::Normal: the piece leaves `from`
Situation_normal_board(b, color, m) ==
    LET promoted == m.from \in b.promoted \/ m.promotion # NoRole
        placed == set_piece_at(remove_piece_at(b, m.from), m.to,
                               Piece(color, IF m.promotion # NoRole THEN m.promotion ELSE m.role))
    IN IF promoted THEN [placed EXCEPT !.promoted = @ \cup {m.to}] ELSE placed

\* fen::Situation::do_move: the en-passant square is cleared and set anew
\* by a pawn moving two ranks
Situation_ep_square(p, m) ==
    IF m.tag = "Normal" /\ m.role = "pawn" /\ distance(m.from, m.to) = 2
    THEN offset(m.from, fold(p.turn, 8, 0 - 8))
    ELSE NoSquare

\* fen::Situation::do_move
Situation_do_move(p, m) ==
    [board |-> CASE m.tag = "Normal" -> Situation_normal_board(p.board, p.turn, m)
                 [] m.tag = "Castle" -> do_move_castle_board(p.board, p.turn, m)
                 [] m.tag = "EnPassant" -> do_move_en_passant_board(p.board, m)
                 [] m.tag = "Put" -> set_piece_at(p.board, m.to, Piece(p.turn, m.role))
                 [] OTHER -> p.board,
     turn |-> Other(p.turn),
     castling_rights |-> do_move_castling_rights(p, m),
     ep_square |-> Situation_ep_square(p, m),
     halfmove_clock |-> do_move_halfmove_clock(p, m),
     fullmoves |-> do_move_fullmoves(p)]

\* Variant::checkers
variant_checkers(p) ==
    LET king == king_of(p.board, p.turn) IN
    IF king = NoSquare THEN {}
    ELSE by_color(p.board, Other(p.turn)) \cap attacks_to(p.board, king)

\* evasions of variant.rs
variant_evasions(p, chk) ==
    LET king == first(our(p, "king"))
        attacked == UNION {ray(checker, king) \ {checker} : checker \in chk \cap sliders(p.board)}
        checker == single_square(chk)
    IN
    {Normal("king", king, role_at(p.board, to), to, NoRole) :
        to \in (king_attacks(king) \ us(p)) \ attacked}
    \cup (IF checker # NoSquare
          THEN gen_pseudo_legal(p, Squares \ kings(p.board), between(king, checker) \cup {checker})
               \cup gen_en_passant(p)
          ELSE {})

\* gen_castling_moves of variant.rs: the rook goes to the f-file or d-file
variant_CastleTargets(p, king, rook) ==
    IF king < rook
    THEN [king_to |-> fold(p.turn, G1, G8), rook_to |-> fold(p.turn, F1, F8)]
    ELSE [king_to |-> fold(p.turn, C1, C8), rook_to |-> fold(p.turn, D1, D8)]

variant_CastleAllowed(p, king, rook) ==
    LET t == variant_CastleTargets(p, king, rook)
        empty_for_king == (between(king, t.king_to) \cup {t.king_to}) \ {rook, king}
        empty_for_rook == (between(rook, t.rook_to) \cup {t.rook_to}) \ {rook, king}
    IN /\ occupied(p.board) \cap empty_for_king = {}
       /\ occupied(p.board) \cap empty_for_rook = {}
       /\ \A sq \in between(king, t.king_to) \cup {king, t.king_to} :
             attacks_to(p.board, sq) \cap them(p) = {}
       /\ rook_attacks(t.king_to, occupied(p.board) \ {rook})
            \cap them(p) \cap rooks_and_queens(p.board) = {}

variant_gen_castling_moves(p) ==
    LET backrank == relative_rank(p.turn, 0) IN
    {Castle(c[1], c[2]) :
        c \in {kr \in (our(p, "king") \cap backrank) \X (p.castling_rights \cap backrank) :
                 variant_CastleAllowed(p, kr[1], kr[2])}}

\* is_safe of variant.rs: a Put or Null move is never safe
variant_is_safe(p, m, blockers) ==
    CASE m.tag = "Normal" ->
           IF m.role = "king"
           THEN attacks_to(p.board, m.to) \cap them(p) = {}
           ELSE \/ m.from \notin (us(p) \cap blockers)
                \/ aligned(m.from, m.to, first(our(p, "king")))
      [] m.tag = "EnPassant" ->
           LET occ == (flip(flip(occupied(p.board), m.from), m.pawn)) \cup {m.to}
               king == first(our(p, "king"))
           IN IF king = NoSquare THEN TRUE
              ELSE /\ rook_attacks(king, occ) \cap them(p) \cap rooks_and_queens(p.board) = {}
                   /\ bishop_attacks(king, occ) \cap them(p) \cap bishops_and_queens(p.board) = {}
      [] m.tag = "Castle" -> TRUE
      [] OTHER -> FALSE

\* Variant::legal_moves. The unwrap of king_of panics on a board without a
\* king of the side to move: no move list is produced then.
variant_legal_moves(p) ==
    IF king_of(p.board, p.turn) = NoSquare THEN {}
    ELSE LET chk == variant_checkers(p)
             moves == IF chk = {}
                      THEN gen_pseudo_legal(p, Squares, Squares)
                           \cup gen_en_passant(p) \cup variant_gen_castling_moves(p)
                      ELSE variant_evasions(p, chk)
             blockers == slider_blockers(p, them(p), king_of(p.board, p.turn))
         IN {m \in moves : variant_is_safe(p, m, blockers)}

\* the largest u8
U8Max == 255

\* the two builds of the crate: arithmetic overflow panics in a debug build
\* and wraps in a release build
Builds == {"debug", "release"}

\* u8 += 1
add_u8(n, build) ==
    IF n < U8Max THEN [v |-> n + 1, panicked |-> FALSE]
    ELSE [v |-> 0, panicked |-> build = "debug"]

\* u8 -= 1
sub_u8(n, build) ==
    IF n > 0 THEN [v |-> n - 1, panicked |-> FALSE]
    ELSE [v |-> U8Max, panicked |-> build = "debug"]

\* Pockets::default
Pockets_default == [c \in Colors |-> [r \in Roles |-> 0]]

\* Crazyhouse::default
Crazyhouse_default == [pos |-> Standard_default, pockets |-> Pockets_default, panicked |-> FALSE]

\* Crazyhouse::from_fen: the pockets are those of Crazyhouse::default
Crazyhouse_from_fen(text) ==
    [pos |-> Situation_from_fen(text).pos, pockets |-> Pockets_default, panicked |-> FALSE]

\* Crazyhouse::do_move crediting the captured role whatever the marker says
Crazyhouse_captured_role_unmarked(p, m) == m.capture

\* Crazyhouse::do_move: the role credited to the pocket for a capture
Crazyhouse_captured_role(p, m) ==
    IF m.to \in p.board.promoted THEN "pawn" ELSE m.capture

\* Crazyhouse::do_move; a panic leaves no successor value: the record is
\* kept and marked
Crazyhouse_do_move(zh, m, build) ==
    LET color == zh.pos.turn
        role == CASE m.tag = "Normal" /\ m.capture # NoRole -> Crazyhouse_captured_role(zh.pos, m)
                  [] m.tag = "Put" -> m.role
                  [] OTHER -> NoRole
        count == IF role = NoRole THEN [v |-> 0, panicked |-> FALSE]
                 ELSE IF m.tag = "Put" THEN sub_u8(zh.pockets[color][role], build)
                 ELSE add_u8(zh.pockets[color][role], build)
    IN IF count.panicked THEN [zh EXCEPT !.panicked = TRUE]
       ELSE [pos |-> Situation_do_move(zh.pos, m),
             pockets |-> IF role = NoRole THEN zh.pockets
                         ELSE [zh.pockets EXCEPT ![color][role] = count.v],
             panicked |-> FALSE]

\* RemainingChecks::default: three checks each
RemainingChecks_default == [c \in Colors |-> 3]

\* ThreeCheck::default
ThreeCheck_default ==
    [pos |-> Standard_default, remaining_checks |-> RemainingChecks_default, panicked |-> FALSE]

\* ThreeCheck::from_fen: the counters are those of ThreeCheck::default
ThreeCheck_from_fen(text) ==
    [pos |-> Situation_from_fen(text).pos, remaining_checks |-> RemainingChecks_default,
     panicked |-> FALSE]

\* ThreeCheck::do_move
ThreeCheck_do_move(tc, m, build) ==
    LET after == Situation_do_move(tc.pos, m)
        count == sub_u8(tc.remaining_checks[after.turn], build)
    IN IF variant_checkers(after) = {}
       THEN [tc EXCEPT !.pos = after]
       ELSE IF count.panicked THEN [tc EXCEPT !.pos = after, !.panicked = TRUE]
       ELSE [pos |-> after,
             remaining_checks |-> [tc.remaining_checks EXCEPT ![after.turn] = count.v],
             panicked |-> FALSE]

(***************************************************************************)
(* Start positions and inputs                                              *)
(***************************************************************************)
\* "rnbqkbnr/pppppppp/8/8/8/5NP1/PPPPPPBP/RNBQK2R w KQkq - 0 1": tests::test_castling_moves
FenCastling ==
    <<"r", "n", "b", "q", "k", "b", "n", "r", "/", "p", "p", "p", "p", "p",
      "p", "p", "p", "/", "8", "/", "8", "/", "8", "/", "5", "N", "P", "1",
      "/", "P", "P", "P", "P", "P", "P", "B", "P", "/", "R", "N", "B", "Q",
      "K", "2", "R", " ", "w", " ", "K", "Q", "k", "q", " ", "-", " ", "0",
      " ", "1">>

\* "4k3/8/8/8/8/8/8/4K2R w K - 0 1": tests::test_fen
FenRook ==
    <<"4", "k", "3", "/", "8", "/", "8", "/", "8", "/", "8", "/", "8", "/",
      "8", "/", "4", "K", "2", "R", " ", "w", " ", "K", " ", "-", " ", "0",
      " ", "1">>

\* "r3k2r/1pp2ppp/p1nqbn2/4p3/4P3/P2P1N2/1PPNBPPP/R2QR1K1 b kq -": a four-field text (spec.md 8, scenario 1)
FenPin ==
    <<"r", "3", "k", "2", "r", "/", "1", "p", "p", "2", "p", "p", "p", "/",
      "p", "1", "n", "q", "b", "n", "2", "/", "4", "p", "3", "/", "4", "P",
      "3", "/", "P", "2", "P", "1", "N", "2", "/", "1", "P", "P", "N", "B",
      "P", "P", "P", "/", "R", "2", "Q", "R", "1", "K", "1", " ", "b", " ",
      "k", "q", " ", "-">>

\* "r3k2r/1P6/8/8/8/8/6p1/R3K2R b KQkq - 5 0": pawns about to promote, fullmove field 0
FenPromotion ==
    <<"r", "3", "k", "2", "r", "/", "1", "P", "6", "/", "8", "/", "8", "/",
      "8", "/", "8", "/", "6", "p", "1", "/", "R", "3", "K", "2", "R", " ",
      "b", " ", "K", "Q", "k", "q", " ", "-", " ", "5", " ", "0">>

\* "4k2r/6K1/8/8/8/8/8/8 w k - 0 1": the white king stands next to the black
\* rook of h8, whose square is in the castling rights
FenKingRook ==
    <<"4", "k", "2", "r", "/", "6", "K", "1", "/", "8", "/", "8", "/", "8", "/",
      "8", "/", "8", "/", "8", " ", "w", " ", "k", " ", "-", " ", "0", " ", "1">>

\* "rnbqkbnr/pppppppp/8/8/8/8/PPPPPPPP/RNBQKBNR w KQkq - 0 1": tests::test_fen
FenDefault ==
    <<"r", "n", "b", "q", "k", "b", "n", "r", "/", "p", "p", "p", "p", "p",
      "p", "p", "p", "/", "8", "/", "8", "/", "8", "/", "8", "/", "P", "P",
      "P", "P", "P", "P", "P", "P", "/", "R", "N", "B", "Q", "K", "B", "N",
      "R", " ", "w", " ", "K", "Q", "k", "q", " ", "-", " ", "0", " ", "1">>

\* "rnbqkbnr/pppppppp/8/8/4P3/8/PPPP1PPP/RNBQKBNR b KQkq e3 0 1": an en-passant square
FenEp ==
    <<"r", "n", "b", "q", "k", "b", "n", "r", "/", "p", "p", "p", "p", "p",
      "p", "p", "p", "/", "8", "/", "8", "/", "4", "P", "3", "/", "8", "/",
      "P", "P", "P", "P", "1", "P", "P", "P", "/", "R", "N", "B", "Q", "K",
      "B", "N", "R", " ", "b", " ", "K", "Q", "k", "q", " ", "e", "3", " ",
      "0", " ", "1">>

\* "r3k3/8/8/8/8/8/8/4K2R b Kq - 12 34": one right per side, counters of two digits
FenCounters ==
    <<"r", "3", "k", "3", "/", "8", "/", "8", "/", "8", "/", "8", "/", "8",
      "/", "8", "/", "4", "K", "2", "R", " ", "b", " ", "K", "q", " ", "-",
      " ", "1", "2", " ", "3", "4">>

\* position texts of six fields in canonical form
CanonicalFens == {FenDefault, FenCastling, FenRook, FenKingRook, FenEp, FenCounters}

\* position texts handed to Standard::from_fen
FenTexts == CanonicalFens \cup {FenPin, FenPromotion}

\* "4k3/8/8/1N6/8/1N6/4N3/4K3 w - - 0 1": three knights reach d4
FenKnights ==
    <<"4", "k", "3", "/", "8", "/", "8", "/", "1", "N", "6", "/", "8", "/",
      "1", "N", "6", "/", "4", "N", "3", "/", "4", "K", "3", " ", "w", " ",
      "-", " ", "-", " ", "0", " ", "1">>

\* "4k3/8/8/8/8/8/8/5BKR w K - 0 1": a Chess960 placement, the king on g1
\* beside its rook on h1, a bishop on f1
FenChess960 ==
    <<"4", "k", "3", "/", "8", "/", "8", "/", "8", "/", "8", "/", "8", "/",
      "8", "/", "5", "B", "K", "R", " ", "w", " ", "K", " ", "-", " ", "0",
      " ", "1">>

\* "4r1k1/8/8/8/8/5n2/6P1/4K3 w - - 0 1": the white king is checked by the
\* rook on e8 and the knight on f3, which the pawn on g2 attacks
FenDoubleCheck ==
    <<"4", "r", "1", "k", "1", "/", "8", "/", "8", "/", "8", "/", "8", "/",
      "5", "n", "2", "/", "6", "P", "1", "/", "4", "K", "3", " ", "w", " ",
      "-", " ", "-", " ", "0", " ", "1">>

\* "4k3/8/5N2/8/3pP3/8/8/4K3 b - e3 0 1": the knight on f6 checks the black
\* king while the en-passant square e3 is set
FenEpCheck ==
    <<"4", "k", "3", "/", "8", "/", "5", "N", "2", "/", "8", "/", "3", "p",
      "P", "3", "/", "8", "/", "8", "/", "4", "K", "3", " ", "b", " ", "-",
      " ", "e", "3", " ", "0", " ", "1">>

\* "6k1/5ppp/8/8/8/8/8/4R1K1 w - - 0 1": the rook mates on e8
FenMate ==
    <<"6", "k", "1", "/", "5", "p", "p", "p", "/", "8", "/", "8", "/", "8",
      "/", "8", "/", "8", "/", "4", "R", "1", "K", "1", " ", "w", " ", "-",
      " ", "-", " ", "0", " ", "1">>

\* "4k3/8/8/8/8/8/5r2/3q~K3 w - - 0 1": the white king can capture a
\* promoted queen and a rook
FenZhPromoted ==
    <<"4", "k", "3", "/", "8", "/", "8", "/", "8", "/", "8", "/", "8", "/",
      "5", "r", "2", "/", "3", "q", "~", "K", "3", " ", "w", " ", "-", " ",
      "-", " ", "0", " ", "1">>

\* "k7/8/8/8/8/8/8/1Q2K3 w - - 0 1": the white queen checks on every move
\* of the line b1a1 a8b8 a1b1 b8a8
FenTcQueen ==
    <<"k", "7", "/", "8", "/", "8", "/", "8", "/", "8", "/", "8", "/", "8",
      "/", "1", "Q", "2", "K", "3", " ", "w", " ", "-", " ", "-", " ", "0",
      " ", "1">>

\* drops handed to Variant::validate
DropTexts ==
    {<<"P", "@", "d", "7">>,
     <<"N", "@", "e", "4">>}

\* coordinate texts handed to Uci::from_ascii
UciTexts ==
    {<<"e", "1", "g", "1">>,
     <<"e", "1", "h", "1">>,
     <<"e", "1", "c", "1">>,
     <<"e", "8", "g", "8">>,
     <<"e", "2", "e", "4">>,
     <<"g", "1", "f", "3">>,
     <<"e", "7", "e", "5">>,
     <<"a", "3", "a", "4">>,
     <<"b", "7", "a", "8", "q">>,
     <<"e", "1", "g", "1", "q">>,
     <<"g", "2", "h", "1", "n">>,
     <<"g", "2", "g", "1">>,
     <<"0", "0", "0", "0">>,
     <<"P", "@", "d", "7">>,
     <<"P", "@", "d", "7", "x">>,
     <<"e", "2", "e", "9">>,
     <<"e", "2", "e", "4", "q", "q">>,
     <<"e", "2">>}

\* the opening lines followed beyond FullPly, in coordinate notation
BookTexts ==
    {<<"b", "1", "c", "3">>,
     <<"e", "7", "e", "5">>,
     <<"c", "3", "d", "5">>,
     <<"e", "5", "e", "4">>,
     <<"d", "5", "f", "6">>,
     <<"d", "7", "e", "6">>,
     <<"g", "7", "f", "6">>,
     <<"e", "2", "e", "4">>,
     <<"b", "8", "c", "6">>,
     <<"e", "4", "e", "5">>,
     <<"d", "7", "d", "5">>,
     <<"e", "5", "d", "6">>,
     <<"e", "4", "d", "5">>,
     <<"d", "8", "d", "5">>,
     <<"e", "1", "h", "1">>,
     <<"e", "8", "h", "8">>,
     <<"e", "1", "a", "1">>,
     <<"g", "2", "h", "1", "q">>,
     <<"b", "7", "a", "8", "n">>,
     <<"b", "1", "a", "1">>,
     <<"a", "8", "b", "8">>,
     <<"a", "1", "b", "1">>,
     <<"b", "8", "a", "8">>,
     <<"f", "6", "e", "8">>}

Book == {from_ascii(t) : t \in BookTexts}

\* every legal move is played for the first FullPly plies
FullPly == 2

\* book lines are followed up to MaxPly plies
MaxPly == 7

\* coordinate texts are converted in positions of at most ConvPly plies
ConvPly == 1

\* moves are rendered with san in positions of at most SanPly plies
SanPly == 1

StartNames ==
    {"default", "castling", "rook", "pin", "promotion", "kingrook", "knights", "mate",
     "chess960", "doublecheck", "epcheck"}

StartPos(name) ==
    CASE name = "default" -> Standard_default
      [] name = "castling" -> from_fen(FenCastling).pos
      [] name = "rook" -> from_fen(FenRook).pos
      [] name = "pin" -> from_fen(FenPin).pos
      [] name = "promotion" -> from_fen(FenPromotion).pos
      [] name = "kingrook" -> from_fen(FenKingRook).pos
      [] name = "knights" -> from_fen(FenKnights).pos
      [] name = "mate" -> from_fen(FenMate).pos
      [] name = "chess960" -> from_fen(FenChess960).pos
      [] name = "doublecheck" -> from_fen(FenDoubleCheck).pos
      [] name = "epcheck" -> from_fen(FenEpCheck).pos

\* the checking line of a Three-Check game is followed up to CheckPly plies
CheckPly == 7

VariantNames == {"zh_default", "zh_promoted", "tc_queen"}

NoMove == [tag |-> "None"]

\* the variant game of a start name: kind, build of the crate, value before
\* and after the last do_move, and the move
StartGame(name, build) ==
    LET begin(kind, v) ==
            [kind |-> kind, build |-> build, cur |-> v, prev |-> v, m |-> NoMove] IN
    CASE name = "zh_default" -> begin("crazyhouse", Crazyhouse_default)
      [] name = "zh_promoted" -> begin("crazyhouse", Crazyhouse_from_fen(FenZhPromoted))
      [] name = "tc_queen" -> begin("threecheck", ThreeCheck_from_fen(FenTcQueen))
      [] OTHER -> [kind |-> "standard"]

NoRes == [op |-> "none"]

(***************************************************************************)
(* The state machine: a position is constructed, legal moves are applied   *)
(* with do_move, coordinate texts are converted against it                 *)
(***************************************************************************)
Init ==
    /\ start \in StartNames \cup VariantNames
    /\ pos = IF start \in StartNames THEN StartPos(start) ELSE Standard_default
    /\ \E build \in Builds : game = StartGame(start, build)
    /\ prev = pos
    /\ last = NoMove
    /\ ply = 0
    /\ book = TRUE
    /\ res = NoRes

Playable(m) ==
    \/ ply < FullPly
    \/ book /\ ply < MaxPly /\ from_chess960(m) \in Book

\* pos = pos.do_move(m) for a move of legal_moves
Play ==
    /\ res = NoRes
    /\ game.kind = "standard"
    /\ \E m \in legal_moves(pos) :
          /\ Playable(m)
          /\ pos' = do_move(pos, m)
          /\ prev' = pos
          /\ last' = m
          /\ book' = (book /\ from_chess960(m) \in Book)
    /\ ply' = ply + 1
    /\ UNCHANGED <<start, res, game>>

\* text.parse::<Uci>() followed by to_move / validate against pos
Conversion(text, p) ==
    LET uci == from_ascii(text) IN
    IF uci.tag = "ParseUciError"
    THEN [op |-> "parse", text |-> text, uci |-> uci]
    ELSE [op |-> "convert", text |-> text, uci |-> uci,
          to_move |-> to_move(uci, p),
          validate |-> validate(p, uci),
          variant_validate |-> variant_validate(p, uci)]

Convert ==
    /\ res = NoRes
    /\ game.kind = "standard"
    /\ ply <= ConvPly
    /\ \E text \in UciTexts : res' = Conversion(text, pos)
    /\ UNCHANGED <<pos, prev, last, ply, start, book, game>>

\* Standard::from_fen(text) and fen() of the position it gives
Render ==
    /\ res = NoRes
    /\ ply = 0
    /\ start = "default"
    /\ \E text \in FenTexts :
          res' = [op |-> "fen", text |-> text, ok |-> from_fen(text).ok,
                  fen |-> fen(from_fen(text).pos)]
    /\ UNCHANGED <<pos, prev, last, ply, start, book, game>>

\* moves handed to san besides the legal ones: the null move and two drops
SanExtra(p) ==
    {Null} \cup {Put(sq, "rook") : sq \in {E8, from_coords(3, 6)} \ occupied(p.board)}

\* pos.san(m)
San ==
    /\ res = NoRes
    /\ game.kind = "standard"
    /\ ply <= SanPly
    /\ \E m \in legal_moves(pos) \cup SanExtra(pos) :
          res' = [op |-> "san", m |-> m, san |-> san(pos, m)]
    /\ UNCHANGED <<pos, prev, last, ply, start, book, game>>

\* the moves of a Crazyhouse game that are played
ZhPlayable(m) ==
    \/ ply < FullPly
    \/ book /\ ply < MaxPly /\ from_chess960(m) \in Book

\* zh = zh.do_move(m) for a move of legal_moves
ZhPlay ==
    /\ game.kind = "crazyhouse"
    /\ ~game.cur.panicked
    /\ \E m \in variant_legal_moves(game.cur.pos) :
          /\ ZhPlayable(m)
          /\ game' = [game EXCEPT !.cur = Crazyhouse_do_move(game.cur, m, game.build),
                                  !.prev = game.cur, !.m = m]
          /\ book' = (book /\ from_chess960(m) \in Book)
    /\ ply' = ply + 1
    /\ UNCHANGED <<pos, prev, last, start, res>>

\* zh.validate(&text.parse()) and do_move of the move it returns
ZhDrop ==
    /\ game.kind = "crazyhouse"
    /\ ~game.cur.panicked
    /\ \E text \in DropTexts :
          LET v == variant_validate(game.cur.pos, from_ascii(text)) IN
          /\ v.ok
          /\ \/ ply <= ConvPly
             \/ ply < MaxPly /\ game.cur.pockets[game.cur.pos.turn][v.m.role] > 0
          /\ game' = [game EXCEPT !.cur = Crazyhouse_do_move(game.cur, v.m, game.build),
                                  !.prev = game.cur, !.m = v.m]
    /\ ply' = ply + 1
    /\ UNCHANGED <<pos, prev, last, start, book, res>>

\* tc = tc.do_move(m) for a move of legal_moves
TcPlay ==
    /\ game.kind = "threecheck"
    /\ ~game.cur.panicked
    /\ \E m \in variant_legal_moves(game.cur.pos) :
          /\ \/ ply < FullPly
             \/ book /\ ply < CheckPly /\ from_chess960(m) \in Book
          /\ game' = [game EXCEPT !.cur = ThreeCheck_do_move(game.cur, m, game.build),
                                  !.prev = game.cur, !.m = m]
          /\ book' = (book /\ from_chess960(m) \in Book)
    /\ ply' = ply + 1
    /\ UNCHANGED <<pos, prev, last, start, res>>

\* pos.clone().do_move(&Move::Null): the position a null move gives
Pass ==
    /\ res = NoRes
    /\ game.kind = "standard"
    /\ ply <= SanPly
    /\ res' = [op |-> "null", after |-> do_move(pos, Null)]
    /\ UNCHANGED <<pos, prev, last, ply, start, book, game>>

Next == Play \/ Convert \/ Render \/ San \/ Pass \/ ZhPlay \/ ZhDrop \/ TcPlay

Spec == Init /\ [][Next]_vars

(***************************************************************************)
(* Properties                                                              *)
(***************************************************************************)
\* the king of `color` stands attacked by a piece of the other color
KingAttacked(p, color) ==
    /\ king_of(p.board, color) # NoSquare
    /\ attacks_to(p.board, king_of(p.board, color)) \cap by_color(p.board, Other(color)) # {}

Played == last.tag # "None"

\* C1: in every position reached from the initial position by legal moves,
\* no move of legal_moves leaves the mover's own king attacked after do_move.
C1_NoSelfCheck ==
    start = "default" =>
        \A m \in legal_moves(pos) : ~KingAttacked(do_move(pos, m), pos.turn)

(***************************************************************************)
(* The reference generator of C2: the moves the rules of chess allow,      *)
(* applied by the rules of chess, kept when the mover's king is not        *)
(* attacked afterwards.                                                    *)
(***************************************************************************)
RefForward(color) == fold(color, 8, 0 - 8)

RefReach(role, from, occ) ==
    CASE role = "king" -> king_attacks(from)
      [] role = "knight" -> knight_attacks(from)
      [] role = "bishop" -> bishop_attacks(from, occ)
      [] role = "rook" -> rook_attacks(from, occ)
      [] role = "queen" -> rook_attacks(from, occ) \cup bishop_attacks(from, occ)

RefPromotions(p, from, to) ==
    IF rank(to) = fold(p.turn, 7, 0)
    THEN {Normal("pawn", from, role_at(p.board, to), to, r) : r \in {"queen", "rook", "bishop", "knight"}}
    ELSE {Normal("pawn", from, role_at(p.board, to), to, NoRole)}

RefPawnTargets(p, from) ==
    LET occ == occupied(p.board)
        one == from + RefForward(p.turn)
        two == from + 2 * RefForward(p.turn)
    IN (IF one \in Squares /\ one \notin occ THEN {one} ELSE {})
       \cup (IF /\ from \in relative_rank(p.turn, 1)
                /\ one \notin occ /\ two \notin occ THEN {two} ELSE {})
       \cup (pawn_attacks(p.turn, from) \cap them(p))

RefEnPassant(p) ==
    LET ep == p.ep_square
        captured == ep - RefForward(p.turn)
    IN IF /\ ep # NoSquare
          /\ ep \in relative_rank(p.turn, 5)
          /\ ep \notin occupied(p.board)
          /\ captured \in by_piece(p.board, Other(p.turn), "pawn")
       THEN {EnPassant(from, ep, captured) :
               from \in our(p, "pawn") \cap pawn_attacks(Other(p.turn), ep)}
       ELSE {}

RefKingTo(p, king, rook) == from_coords(IF king < rook THEN 6 ELSE 2, fold(p.turn, 0, 7))

RefRookTo(p, king, rook) == from_coords(IF king < rook THEN 5 ELSE 3, fold(p.turn, 0, 7))

RefCastles(p) ==
    {Castle(c[1], c[2]) :
       c \in {kr \in (our(p, "king") \cap relative_rank(p.turn, 0))
                     \X (p.castling_rights \cap our(p, "rook") \cap relative_rank(p.turn, 0)) :
                LET kt == RefKingTo(p, kr[1], kr[2])
                    rt == RefRookTo(p, kr[1], kr[2])
                IN /\ ((between(kr[1], kt) \cup {kt} \cup between(kr[2], rt) \cup {rt})
                          \ {kr[1], kr[2]}) \cap occupied(p.board) = {}
                   /\ \A sq \in between(kr[1], kt) \cup {kr[1], kt} :
                         attacks_to(p.board, sq) \cap them(p) = {}}}

RefPseudo(p) ==
    UNION {UNION {{Normal(role, from, role_at(p.board, to), to, NoRole) :
                     to \in RefReach(role, from, occupied(p.board)) \ us(p)} :
                  from \in our(p, role)} :
           role \in Roles \ {"pawn"}}
    \cup UNION {UNION {RefPromotions(p, from, to) : to \in RefPawnTargets(p, from)} :
                from \in our(p, "pawn")}
    \cup RefEnPassant(p)
    \cup RefCastles(p)

RefApply(p, m) ==
    CASE m.tag = "Normal" ->
           set_piece_at(remove_piece_at(p.board, m.from), m.to,
                        Piece(p.turn, IF m.promotion # NoRole THEN m.promotion ELSE m.role))
      [] m.tag = "EnPassant" ->
           set_piece_at(remove_piece_at(remove_piece_at(p.board, m.from), m.pawn),
                        m.to, Piece(p.turn, "pawn"))
      [] m.tag = "Castle" ->
           set_piece_at(
               set_piece_at(remove_piece_at(remove_piece_at(p.board, m.king), m.rook),
                            RefRookTo(p, m.king, m.rook), Piece(p.turn, "rook")),
               RefKingTo(p, m.king, m.rook), Piece(p.turn, "king"))

RefLegal(p) ==
    {m \in RefPseudo(p) :
       LET b == RefApply(p, m)
       IN attacks_to(b, king_of(b, p.turn)) \cap by_color(b, Other(p.turn)) = {}}

\* C2: legal_moves(P) is exactly the set of moves of the reference generator
\* (positions with one king per side).
C2_ExactLegalMoves ==
    (\A c \in Colors : Cardinality(by_piece(pos.board, c, "king")) = 1) =>
        legal_moves(pos) = RefLegal(pos)

\* C3: the leaves of the legal-move tree of the initial position number 20
\* at depth 1, 400 at depth 2 and 8,902 at depth 3.
C3_Perft ==
    (start = "default" /\ ply = 0) =>
        /\ perft(pos, 1) = 20
        /\ perft(pos, 2) = 400
        /\ perft(pos, 3) = 8902

\* C4: after a Normal move, `from` is empty, `to` holds a piece of the mover
\* with the promotion role if given and else the moved role, and `to` is
\* marked promoted iff the piece on `from` was, or the move promotes.
C4_NormalMove ==
    (Played /\ last.tag = "Normal") =>
        /\ last.from \notin occupied(pos.board)
        /\ piece_at(pos.board, last.to)
             = Piece(prev.turn, IF last.promotion # NoRole THEN last.promotion ELSE last.role)
        /\ (last.to \in pos.board.promoted)
             <=> (last.from \in prev.board.promoted \/ last.promotion # NoRole)

TwoRankPawnMove(m) ==
    m.tag = "Normal" /\ m.role = "pawn" /\ Abs(rank(m.to) - rank(m.from)) = 2

\* C5: after do_move the en-passant square is the square passed over by a
\* pawn that moved two ranks, and absent after every other move.
C5_EpSquare ==
    Played =>
        pos.ep_square = IF TwoRankPawnMove(last)
                        THEN from_coords(file(last.from), (rank(last.from) + rank(last.to)) \div 2)
                        ELSE NoSquare

IsCapture(p, m) == m.tag = "Normal" /\ m.to \in by_color(p.board, Other(p.turn))

\* C6: after do_move the halfmove clock is 0 for a pawn move, a capture or an
\* en-passant capture, and the previous clock plus one for every other move.
C6_HalfmoveClock ==
    Played =>
        pos.halfmove_clock =
            IF \/ last.tag = "EnPassant"
               \/ last.tag = "Normal" /\ last.from \in by_role(prev.board, "pawn")
               \/ IsCapture(prev, last)
            THEN 0
            ELSE prev.halfmove_clock + 1

C6_Witness ==
    /\ Played /\ last.tag = "Castle"
    /\ prev.halfmove_clock > 0
    /\ pos.halfmove_clock = prev.halfmove_clock + 1

\* C7: every do_move flips the side to move; the fullmove counter grows by
\* one after a move of Black and is unchanged after a move of White; it is
\* at least 1 in every position.
C7_TurnAndFullmoves ==
    /\ pos.fullmoves >= 1
    /\ Played =>
         /\ pos.turn = Other(prev.turn)
         /\ pos.fullmoves = prev.fullmoves + (IF prev.turn = Black THEN 1 ELSE 0)

C7_Witness ==
    /\ Played /\ start = "promotion"
    /\ prev.turn = Black /\ prev.fullmoves = 1 /\ pos.fullmoves = 2

\* C8: after Castle {king, rook} the mover's king stands on the g-file
\* (king < rook) or c-file (king > rook) of its back rank and the rook on the
\* f-file or d-file, neither is left on its start square, the mover has no
\* castling right left and the opponent's rights are unchanged.
C8_Castle ==
    (Played /\ last.tag = "Castle") =>
        LET c == prev.turn
            king_to == from_coords(IF last.king < last.rook THEN 6 ELSE 2, fold(c, 0, 7))
            rook_to == from_coords(IF last.king < last.rook THEN 5 ELSE 3, fold(c, 0, 7))
        IN /\ piece_at(pos.board, king_to) = Piece(c, "king")
           /\ piece_at(pos.board, rook_to) = Piece(c, "rook")
           /\ ({last.king, last.rook} \ {king_to, rook_to}) \cap occupied(pos.board) = {}
           /\ pos.castling_rights \cap relative_rank(c, 0) = {}
           /\ pos.castling_rights \ relative_rank(c, 0) = prev.castling_rights \ relative_rank(c, 0)

C8_Witness ==
    /\ Played /\ last.tag = "Castle" /\ last.king > last.rook
    /\ pos.castling_rights # {}
    /\ prev.castling_rights \cap relative_rank(prev.turn, 0) # {}

\* C9: where the king on e1 may castle with the rook on h1, Position::validate
\* of e1g1 returns a move of legal_moves, and do_move of that move leaves the
\* white king on g1 and the white rook on f1.
C9_ValidateCastle ==
    (/\ res.op = "convert"
     /\ res.text = <<"e", "1", "g", "1">>
     /\ pos.turn = White
     /\ Castle(E1, H1) \in legal_moves(pos)) =>
        /\ res.validate.ok
        /\ res.validate.m \in legal_moves(pos)
        /\ piece_at(do_move(pos, res.validate.m).board, G1) = Piece(White, "king")
        /\ piece_at(do_move(pos, res.validate.m).board, F1) = Piece(White, "rook")

\* C10: Uci::to_move returns Ok(m) only for a legal move; it is an error
\* when the source square is empty, when a promotion is asked of a piece that
\* is no pawn, and when the derived move is not legal.
C10_State ==
    res.op = "convert" =>
        /\ res.to_move.ok => \E l \in legal_moves(pos) : same_move(l, res.to_move.m)
        /\ (res.uci.tag = "Normal" /\ res.uci.from \notin occupied(pos.board)) => ~res.to_move.ok
        /\ (/\ res.uci.tag = "Normal" /\ res.uci.promotion # NoRole
            /\ res.uci.from \notin by_role(pos.board, "pawn")) => ~res.to_move.ok
        /\ (\A l \in legal_moves(pos) : ~same_move(l, to_move_candidate(res.uci, pos)))
              => ~res.to_move.ok

\* C10, the frame: a conversion leaves the position as it was.
C10_ToMove == [](C10_State) /\ [][res' # res => pos' = pos]_vars

C10_Witness ==
    /\ res.op = "convert" /\ res.to_move.ok /\ res.to_move.m.tag = "Castle"
    /\ res.text = <<"e", "1", "g", "1">>

\* C11: for every legal move m of a position P, Uci::from_chess960(m)
\* converted back with Uci::to_move(P) is Ok(m), also for a king capturing a
\* piece that stands on a square of the castling rights.
C11_RoundTrip ==
    \A m \in legal_moves(pos) :
        /\ to_move(from_chess960(m), pos).ok
        /\ same_move(m, to_move(from_chess960(m), pos).m)

IsFileChar(ch) == IndexIn(LowerCase, ch) \in 1..8

IsRankChar(ch) == IndexIn(Digits, ch) \in 2..9

\* the coordinate grammar: 0000, [a-h][1-8][a-h][1-8][qrbnk]?, [PNBRQK]@[a-h][1-8]
GrammarUci(t) ==
    IF t = <<"0", "0", "0", "0">> THEN UciNull
    ELSE IF /\ Len(t) \in {4, 5}
            /\ IsFileChar(t[1]) /\ IsRankChar(t[2]) /\ IsFileChar(t[3]) /\ IsRankChar(t[4])
            /\ Len(t) = 5 => t[5] \in {"q", "r", "b", "n", "k"}
    THEN UciNormal(square_from_str(SubSeq(t, 1, 2)), square_from_str(SubSeq(t, 3, 4)),
                   IF Len(t) = 5 THEN role_from_char(t[5]) ELSE NoRole)
    ELSE IF /\ Len(t) = 4
            /\ t[1] \in {"P", "N", "B", "R", "Q", "K"} /\ t[2] = "@"
            /\ IsFileChar(t[3]) /\ IsRankChar(t[4])
    THEN UciPut(role_from_char(to_ascii_lowercase(t[1])), square_from_str(SubSeq(t, 3, 4)))
    ELSE ParseErr

\* C12: Uci::from_ascii gives Null, Normal or Put exactly for the texts of
\* the coordinate grammar and ParseUciError for every other text, a drop
\* followed by one more byte included.
C12_Grammar ==
    res.op \in {"parse", "convert"} => res.uci = GrammarUci(res.text)

\* C13: for a canonical position text t of six fields, Standard::from_fen(t)
\* succeeds and fen() of the result is t.
C13_FenRoundTrip ==
    (res.op = "fen" /\ res.text \in CanonicalFens) => (res.ok /\ res.fen = res.text)

C13_Witness ==
    /\ res.op = "fen" /\ res.text = FenCounters
    /\ res.ok /\ res.fen = FenCounters

\* the text san puts between the role letter and the capture mark or the
\* destination square
SanPrefix(text, m) ==
    LET marks == IF text[Len(text)] \in {"+", "#"} THEN 1 ELSE 0
        fixed == 2 + marks + (IF m.capture # NoRole THEN 1 ELSE 0)
    IN SubSeq(text, 2, Len(text) - fixed)

\* C14: san of a Normal move of a piece adds nothing when the move is the
\* only candidate, the source file alone when no other candidate starts on
\* that file, the source rank alone when another candidate shares the file
\* and none the rank, and both only when one other candidate shares the
\* file and another the rank.
C14_Disambiguation ==
    (res.op = "san" /\ res.m.tag = "Normal" /\ res.m.role # "pawn") =>
        LET m == res.m
            others == {c.from : c \in {l \in legal_moves(pos) :
                          l.tag = "Normal" /\ l.role = m.role /\ l.to = m.to}} \ {m.from}
            same_file == \E o \in others : file(o) = file(m.from)
            same_rank == \E o \in others : rank(o) = rank(m.from)
            prefix == SanPrefix(res.san, m)
        IN /\ others = {} => prefix = <<>>
           /\ (others # {} /\ ~same_file) => prefix = <<LowerCase[file(m.from) + 1]>>
           /\ (same_file /\ ~same_rank) => prefix = <<Digits[rank(m.from) + 2]>>
           /\ Len(prefix) = 2 => (same_file /\ same_rank)

\* C15: the san text of a Normal, EnPassant, Castle or Put move ends with #
\* exactly when the opponent is in check after the move and has no legal
\* reply, with + exactly when it is in check and has a reply, and with
\* neither otherwise; the null move is -- without a mark.
C15_Suffix ==
    res.op = "san" =>
        LET after == do_move(pos, res.m)
            in_check == KingAttacked(after, after.turn)
            replies == legal_moves(after) # {}
            mark == res.san[Len(res.san)]
        IN IF res.m.tag = "Null" THEN res.san = <<"-", "-">>
           ELSE /\ mark = "#" <=> (in_check /\ ~replies)
                /\ mark = "+" <=> (in_check /\ replies)

C15_Witness ==
    /\ res.op = "san" /\ start = "mate" /\ ply = 0
    /\ res.san = <<"R", "e", "8", "#">>

\* a Crazyhouse or Three-Check game in which do_move has been called
ZhMoved == game.kind = "crazyhouse" /\ game.m.tag # "None"

TcMoved == game.kind = "threecheck" /\ game.m.tag # "None"

\* C16: a capturing Normal move of a Crazyhouse game adds exactly one to
\* the capturer's pocket, to the pawn entry when the captured piece carried
\* the promoted marker and to the entry of the captured role otherwise, and
\* changes no other pocket entry.  A credited entry stands below the
\* largest u8: more pieces than that never leave the board.
C16_CapturePocket ==
    (/\ ZhMoved
     /\ game.m.tag = "Normal" /\ game.m.capture # NoRole
     /\ \A r \in Roles : game.prev.pockets[game.prev.pos.turn][r] < U8Max) =>
        LET color == game.prev.pos.turn
            role == IF game.m.to \in game.prev.pos.board.promoted THEN "pawn"
                    ELSE game.m.capture
        IN /\ ~game.cur.panicked
           /\ game.cur.pockets =
                [game.prev.pockets EXCEPT ![color][role] = game.prev.pockets[color][role] + 1]

\* the white king has taken the promoted queen on d1: one pawn in hand
C16_Witness ==
    /\ ZhMoved /\ start = "zh_promoted" /\ ply = 1
    /\ game.m.tag = "Normal" /\ game.m.capture = "queen"
    /\ game.m.to \in game.prev.pos.board.promoted
    /\ game.cur.pockets[White]["pawn"] = 1
    /\ game.cur.pockets[White]["queen"] = 0

\* the Crazyhouse game after e2e4 d7d5 e4d5 d8d5: White holds one pawn
AfterQxd5 ==
    /\ ZhMoved /\ start = "zh_default" /\ ply = 4 /\ ~game.cur.panicked
    /\ game.m = Normal("queen", from_coords(3, 7), "pawn", from_coords(3, 4), NoRole)
    /\ game.cur.pockets[White]["pawn"] = 1
    /\ game.cur.pos.turn = White

\* C17: after e2e4 d7d5 e4d5 d8d5 in Crazyhouse the drop P@d7 is a member
\* of the legal moves and is accepted by the conversion of the coordinate
\* text; applying it leaves no pawn in White's pocket and attacks the
\* black king.
C17_PawnDrop ==
    AfterQxd5 =>
        LET drop == Put(from_coords(3, 6), "pawn")
            uci == from_ascii(<<"P", "@", "d", "7">>)
        IN /\ uci = UciPut("pawn", from_coords(3, 6))
           /\ drop \in variant_legal_moves(game.cur.pos)
           /\ to_move(uci, game.cur.pos).ok
           /\ \A build \in Builds :
                LET after == Crazyhouse_do_move(game.cur, drop, build) IN
                /\ ~after.panicked
                /\ after.pockets[White]["pawn"] = 0
                /\ KingAttacked(after.pos, Black)

\* C18: a drop that Variant::validate returned and do_move applied was made
\* from a pocket holding at least one piece of the role: do_move does not
\* panic and leaves one piece less in the pocket.
C18_DropFromPocket ==
    (ZhMoved /\ game.m.tag = "Put") =>
        LET color == game.prev.pos.turn
            held == game.prev.pockets[color][game.m.role]
        IN /\ held > 0
           /\ ~game.cur.panicked
           /\ game.cur.pockets[color][game.m.role] = held - 1

\* the remaining checks of `color` before and after the last do_move
ChecksBefore(color) == game.prev.remaining_checks[color]

ChecksAfter(color) == game.cur.remaining_checks[color]

\* C19: do_move of a Three-Check game takes exactly one from the counter of
\* the side to move after the move when the king of that side is attacked,
\* leaves both counters as they were otherwise, and never changes the
\* counter of the side that moved.
C19_CheckCounted ==
    TcMoved =>
        LET mover == game.prev.pos.turn
            other == Other(mover)
        IN /\ ~game.cur.panicked
           /\ game.cur.pos.turn = other
           /\ ChecksAfter(mover) = ChecksBefore(mover)
           /\ ChecksAfter(other) =
                IF KingAttacked(game.cur.pos, other) THEN ChecksBefore(other) - 1
                ELSE ChecksBefore(other)

\* C20: in every position of a Three-Check game reached by legal moves both
\* counters lie in 0..3 and no decrement has gone below zero.
C20_CountersInRange ==
    game.kind = "threecheck" =>
        /\ ~game.cur.panicked
        /\ \A color \in Colors : game.cur.remaining_checks[color] \in 0..3

\* C21: in every position reached from the initial position by legal moves
\* no square holds pieces of both colors, the occupied squares are those of
\* the two colors and each has one role, each color has exactly one king,
\* and no pawn stands on rank 1 or rank 8.
C21_BoardInvariants ==
    (game.kind = "standard" /\ start = "default") =>
        LET b == pos.board IN
        /\ by_color(b, White) \cap by_color(b, Black) = {}
        /\ occupied(b) = UNION {by_role(b, r) : r \in Roles}
        /\ \A r1, r2 \in Roles : r1 # r2 => by_role(b, r1) \cap by_role(b, r2) = {}
        /\ \A c \in Colors : Cardinality(by_piece(b, c, "king")) = 1
        /\ by_role(b, "pawn") \cap (relative_rank(White, 0) \cup relative_rank(White, 7)) = {}

\* the squares that must be free for Castle {king, rook} of `color`: those
\* between the rook and the f-file or d-file square of the back rank and
\* between the king and the g-file or c-file square, with the two
\* destinations, the castling king and rook apart
CastlePath(color, king, rook) ==
    LET king_to == from_coords(IF king < rook THEN 6 ELSE 2, fold(color, 0, 7))
        rook_to == from_coords(IF king < rook THEN 5 ELSE 3, fold(color, 0, 7))
    IN (between(rook, rook_to) \cup {rook_to} \cup between(king, king_to) \cup {king_to})
       \ {king, rook}

\* C22: a Castle move is in the legal moves of position.rs and of
\* variant.rs only if the squares between the rook and its destination, the
\* squares between the king and its destination and the two destinations
\* are unoccupied apart from the castling king and rook.
C22_CastlePathEmpty ==
    game.kind = "standard" =>
        \A m \in legal_moves(pos) \cup variant_legal_moves(pos) :
            m.tag = "Castle" =>
                occupied(pos.board) \cap CastlePath(pos.turn, m.king, m.rook) = {}

\* a piece of the opponent of the side to move attacks `sq`
AttackedByThem(p, sq) ==
    attacks_to(p.board, sq) \cap by_color(p.board, Other(p.turn)) # {}

\* C23: a Castle move is in legal_moves only if the side to move is not in
\* check, no opponent piece attacks the king's square, its destination or
\* a square between them, and no opponent rook or queen attacks the
\* destination along a rank or file once the castling rook is taken off.
C23_CastleUnattacked ==
    game.kind = "standard" =>
        \A m \in legal_moves(pos) :
            m.tag = "Castle" =>
                LET king_to == from_coords(IF m.king < m.rook THEN 6 ELSE 2,
                                           fold(pos.turn, 0, 7))
                IN /\ ~KingAttacked(pos, pos.turn)
                   /\ \A sq \in between(m.king, king_to) \cup {m.king, king_to} :
                         ~AttackedByThem(pos, sq)
                   /\ rook_attacks(king_to, occupied(pos.board) \ {m.rook})
                        \cap by_color(pos.board, Other(pos.turn))
                        \cap rooks_and_queens(pos.board) = {}

\* Black may castle with the rook on h8 and not with the rook on a8: the
\* white pawn on b7 attacks c8
C23_Witness ==
    /\ start = "promotion" /\ ply = 0 /\ pos.turn = Black
    /\ Castle(E8, H8) \in legal_moves(pos)
    /\ Castle(E8, A8) \notin legal_moves(pos)
    /\ AttackedByThem(pos, C8)
    /\ occupied(pos.board) \cap between(E8, A8) = {}

\* the opponent pieces attacking the king of the side to move
KingAttackers(p) ==
    IF king_of(p.board, p.turn) = NoSquare THEN {}
    ELSE attacks_to(p.board, king_of(p.board, p.turn)) \cap by_color(p.board, Other(p.turn))

\* C24: when two or more opponent pieces attack the king of the side to
\* move, every move of the legal moves of position.rs and of variant.rs is
\* a Normal move of the king.
C24_DoubleCheck ==
    (game.kind = "standard" /\ Cardinality(KingAttackers(pos)) >= 2) =>
        \A m \in legal_moves(pos) \cup variant_legal_moves(pos) :
            /\ m.tag = "Normal"
            /\ m.role = "king"
            /\ m.from = king_of(pos.board, pos.turn)

\* rook and knight check the white king: it has moves, the pawn that
\* attacks the knight has none
C24_Witness ==
    /\ start = "doublecheck" /\ ply = 0
    /\ Cardinality(KingAttackers(pos)) = 2
    /\ legal_moves(pos) # {}
    /\ from_coords(5, 2) \in pawn_attacks(White, from_coords(6, 1))

\* C25: when exactly one opponent piece attacks the king of the side to
\* move, every Normal move of another piece in legal_moves ends on the
\* checker's square or strictly between king and checker, and every
\* EnPassant move in legal_moves captures the checker, a pawn.
C25_SingleCheck ==
    (game.kind = "standard" /\ Cardinality(KingAttackers(pos)) = 1) =>
        LET king == king_of(pos.board, pos.turn)
            checker == first(KingAttackers(pos))
        IN \A m \in legal_moves(pos) :
              /\ (m.tag = "Normal" /\ m.role # "king") =>
                    m.to \in between(king, checker) \cup {checker}
              /\ m.tag = "EnPassant" =>
                    (m.pawn = checker /\ role_at(pos.board, checker) = "pawn")

\* C26: do_move of Move::Null gives the other side the move and adds one
\* to the fullmove counter when Black passed; the board, the castling
\* rights and the halfmove clock are those of the position before.
C26_NullMove ==
    res.op = "null" =>
        /\ res.after.turn = Other(pos.turn)
        /\ res.after.fullmoves = pos.fullmoves + (IF pos.turn = Black THEN 1 ELSE 0)
        /\ res.after.board = pos.board
        /\ res.after.castling_rights = pos.castling_rights
        /\ res.after.halfmove_clock = pos.halfmove_clock

\* C27: in every position reached from a from_fen result or the default
\* position by legal moves each castling right is a square of rank 1 holding
\* a white rook or of rank 8 holding a black rook; a king move or a castling
\* takes away the rights of the mover's back rank and no other, every other
\* move the rights on its source and destination squares and no other.
C27_CastlingRights ==
    game.kind = "standard" =>
        /\ \A sq \in pos.castling_rights :
              \E c \in Colors :
                 sq \in relative_rank(c, 0) /\ piece_at(pos.board, sq) = Piece(c, "rook")
        /\ Played =>
              pos.castling_rights =
                 IF last.tag = "Castle" \/ (last.tag = "Normal" /\ last.role = "king")
                 THEN prev.castling_rights \ relative_rank(prev.turn, 0)
                 ELSE prev.castling_rights \ {last.from, last.to}

\* the pieces a pocket of `color` holds
PocketCount(zh, color) ==
    LET held == zh.pockets[color] IN
    held["pawn"] + held["knight"] + held["bishop"] + held["rook"] + held["queen"] + held["king"]

\* the pieces of a Crazyhouse game: on the board and in the two pockets
PieceCount(zh) ==
    Cardinality(occupied(zh.pos.board)) + PocketCount(zh, White) + PocketCount(zh, Black)

\* C28: do_move of a Crazyhouse game keeps the number of pieces on the
\* board and in the pockets together: a capture, en passant included, adds
\* one piece to the capturer's pocket, a drop from a pocket holding the
\* role onto an empty square takes one out of it.  Drops from an empty
\* pocket or onto a piece and pocket entries at the largest u8 are left
\* aside.
C28_PieceCount ==
    (/\ ZhMoved /\ ~game.cur.panicked
     /\ \A c \in Colors, r \in Roles : game.prev.pockets[c][r] < U8Max
     /\ game.m.tag = "Put" =>
           /\ game.prev.pockets[game.prev.pos.turn][game.m.role] > 0
           /\ game.m.to \notin occupied(game.prev.pos.board)) =>
        LET mover == game.prev.pos.turn
            gain == PocketCount(game.cur, mover) - PocketCount(game.prev, mover)
        IN /\ PieceCount(game.cur) = PieceCount(game.prev)
           /\ PocketCount(game.cur, Other(mover)) = PocketCount(game.prev, Other(mover))
           /\ gain = CASE game.m.tag = "EnPassant" -> 1
                       [] game.m.tag = "Normal" /\ game.m.capture # NoRole -> 1
                       [] game.m.tag = "Put" -> 0 - 1
                       [] OTHER -> 0

====
